---- MODULE Spec2Model ----
(***************************************************************************)
(* A model of the 4D geometry / transform engine of threejs-tesseract:     *)
(* the Object4D class (rotation state, transform matrix, original and      *)
(* transformed vertex buffers), the hyperbox generators, and the GUI       *)
(* handlers of main.js that drive them.                                    *)
(*                                                                         *)
(* Numbers.  Angles are counted in quarter turns, where Math.cos and       *)
(* Math.sin are taken at their exact real values -1, 0, 1.  Vertex         *)
(* coordinates are counted in HALF units (the generators produce           *)
(* l * (bit - 0.5), a multiple of 1/2 for an integer l), so every buffer   *)
(* entry of the model is an integer; matrices are in whole units.  All     *)
(* values stay far below 2^24, where Float32Array stores them exactly.     *)
(*                                                                         *)
(* A THREE.Matrix4 is its `elements` array: 16 numbers in column-major     *)
(* order, entry (row r, column c), 0-based, at elements[4c + r].           *)
(***************************************************************************)
EXTENDS Integers, Sequences, FiniteSets, TLC

\* Largest angle, in quarter turns, that a controller sets (the least is -1).
MaxQuarter == 1
\* Largest side length handed to Hyperbox.
MaxLen == 8
\* Longest vertex list handed to the Object4D constructor.
MaxVerts == 5

VARIABLES
  vertexes,             \* Object4D.vertexes: the original buffer
  transformedVertexes,  \* Object4D.transformedVertexes
  rot,                  \* Object4D.rot: plane name -> angle
  matrix4D,             \* Object4D.#matrix4D: the 16 elements
  needsUpdate,          \* position.needsUpdate has been set on the children
  args,                 \* <<lx, ly, lz, lt>> handed to Hyperbox
  retVertexes,          \* what hyperboxVertexes returned (<<>> before the call)
  retEdges,             \* what hyperboxEdges returned (<<>> before the call)
  retFaces              \* what hypercubeFaces returned (<<>> before the call)

vars == <<vertexes, transformedVertexes, rot, matrix4D, needsUpdate,
          args, retVertexes, retEdges, retFaces>>

objVars == <<vertexes, transformedVertexes, rot, matrix4D, needsUpdate>>
geomVars == <<args, retVertexes, retEdges, retFaces>>

-----------------------------------------------------------------------------
(* JavaScript numbers *)

\* The value of an element read past the end of an array: undefined, which
\* arithmetic turns into NaN.  It is kept apart from every number of the model.
NaN == -1000000

NumMul(x, y) == IF x = NaN \/ y = NaN THEN NaN ELSE x * y
NumAdd(x, y) == IF x = NaN \/ y = NaN THEN NaN ELSE x + y
NumNeg(x) == IF x = NaN THEN NaN ELSE 0 - x

\* Math.cos and Math.sin of q quarter turns.
MathCos(q) == CASE q % 4 = 0 -> 1 [] q % 4 = 1 -> 0 [] q % 4 = 2 -> -1 [] OTHER -> 0
MathSin(q) == CASE q % 4 = 0 -> 0 [] q % 4 = 1 -> 1 [] q % 4 = 2 -> 0 [] OTHER -> -1

-----------------------------------------------------------------------------
(* THREE.Matrix4, as the code uses it *)

\* new THREE.Matrix4() and Matrix4.identity()
identity == <<1, 0, 0, 0,  0, 1, 0, 0,  0, 0, 1, 0,  0, 0, 0, 1>>

\* array[k] (k counted from 1): a read past the end of the array gives undefined.
\* Matrix4.fromArray(array, offset): elements[j] = array[j + offset].
elementAt(array, k) == IF k <= Len(array) THEN array[k] ELSE NaN

fromArray(array, offset) ==
  << elementAt(array, offset + 1), elementAt(array, offset + 2),
     elementAt(array, offset + 3), elementAt(array, offset + 4),
     elementAt(array, offset + 5), elementAt(array, offset + 6),
     elementAt(array, offset + 7), elementAt(array, offset + 8),
     elementAt(array, offset + 9), elementAt(array, offset + 10),
     elementAt(array, offset + 11), elementAt(array, offset + 12),
     elementAt(array, offset + 13), elementAt(array, offset + 14),
     elementAt(array, offset + 15), elementAt(array, offset + 16) >>

\* Matrix4.toArray(array, offset): array[offset + j] = elements[j];
\* a write past the end of a Float32Array is dropped.
toArray(te, array, offset) ==
  LET kept == IF Len(array) - offset < 16 THEN Len(array) - offset ELSE 16
  IN SubSeq(array, 1, offset) \o SubSeq(te, 1, kept)
       \o SubSeq(array, offset + 17, Len(array))

\* One entry of the product a * b: row r, column c (0-based),
\* a(r,0) * b(0,c) + a(r,1) * b(1,c) + a(r,2) * b(2,c) + a(r,3) * b(3,c).
productEntry(ae, be, r, c) ==
  NumAdd(NumAdd(NumAdd(NumMul(ae[r + 1], be[4 * c + 1]),
                       NumMul(ae[r + 5], be[4 * c + 2])),
                NumMul(ae[r + 9], be[4 * c + 3])),
         NumMul(ae[r + 13], be[4 * c + 4]))

\* Matrix4.multiplyMatrices(a, b): the matrix product a * b, written to the
\* column-major elements te[4c + r].
multiplyMatrices(ae, be) ==
  << productEntry(ae, be, 0, 0), productEntry(ae, be, 1, 0),
     productEntry(ae, be, 2, 0), productEntry(ae, be, 3, 0),
     productEntry(ae, be, 0, 1), productEntry(ae, be, 1, 1),
     productEntry(ae, be, 2, 1), productEntry(ae, be, 3, 1),
     productEntry(ae, be, 0, 2), productEntry(ae, be, 1, 2),
     productEntry(ae, be, 2, 2), productEntry(ae, be, 3, 2),
     productEntry(ae, be, 0, 3), productEntry(ae, be, 1, 3),
     productEntry(ae, be, 2, 3), productEntry(ae, be, 3, 3) >>

\* this.multiply(m): this = this * m
multiply(this, m) == multiplyMatrices(this, m)

\* A premultiply that multiplies on the other side.
premultiply_postmultiplies(this, m) == multiplyMatrices(this, m)

\* this.premultiply(m): this = m * this
premultiply(this, m) == multiplyMatrices(m, this)

-----------------------------------------------------------------------------
(* Object4D *)

Planes == {"xy", "xz", "yz", "xt", "yt", "zt"}

\* A dXY whose two sines have the same sign.
dXY_sameSign(xy) == << MathCos(xy), MathSin(xy), 0, 0,
                       MathSin(xy), MathCos(xy), 0, 0,
                       0, 0, 1, 0,
                       0, 0, 0, 1 >>

\* The six elementary rotations built by updateMatrix4D.
dXY(xy) == << MathCos(xy), MathSin(xy), 0, 0,
              NumNeg(MathSin(xy)), MathCos(xy), 0, 0,
              0, 0, 1, 0,
              0, 0, 0, 1 >>
dYZ(yz) == << 1, 0, 0, 0,
              0, MathCos(yz), MathSin(yz), 0,
              0, NumNeg(MathSin(yz)), MathCos(yz), 0,
              0, 0, 0, 1 >>
dXZ(xz) == << MathCos(xz), 0, MathSin(xz), 0,
              0, 1, 0, 0,
              NumNeg(MathSin(xz)), 0, MathCos(xz), 0,
              0, 0, 0, 1 >>
dXT(xt) == << MathCos(xt), 0, 0, MathSin(xt),
              0, 1, 0, 0,
              0, 0, 1, 0,
              NumNeg(MathSin(xt)), 0, 0, MathCos(xt) >>
dYT(yt) == << 1, 0, 0, 0,
              0, MathCos(yt), 0, MathSin(yt),
              0, 0, 1, 0,
              0, NumNeg(MathSin(yt)), 0, MathCos(yt) >>
dZT(zt) == << 1, 0, 0, 0,
              0, 1, 0, 0,
              0, 0, MathCos(zt), MathSin(zt),
              0, 0, NumNeg(MathSin(zt)), MathCos(zt) >>

\* An updateMatrix4D that leaves out matrix4D.identity().
resetMatrix_keepsOld(m) == m

\* The accumulator updateMatrix4D starts from: this.#matrix4D after identity().
resetMatrix(m) == identity

\* An updateMatrix4D that multiplies dYZ in before dXY.
updateMatrix4D_swapsOrder(m, r) ==
  LET m0 == identity
      m1 == multiply(m0, dXT(r.xt))
      m2 == multiply(m1, dYT(r.yt))
      m3 == multiply(m2, dZT(r.zt))
      m4 == multiply(m3, dYZ(r.yz))
      m5 == multiply(m4, dXY(r.xy))
  IN multiply(m5, dXZ(r.xz))

\* Object4D.updateMatrix4D(): the new #matrix4D, from the old one m and rot r.
updateMatrix4D(m, r) ==
  LET m0 == resetMatrix(m)
      m1 == multiply(m0, dXT(r.xt))
      m2 == multiply(m1, dYT(r.yt))
      m3 == multiply(m2, dZT(r.zt))
      m4 == multiply(m3, dXY(r.xy))
      m5 == multiply(m4, dYZ(r.yz))
  IN multiply(m5, dXZ(r.xz))

\* A loop turn that transforms the transformed buffer in place.
transformBlock_readsTransformed(originalVertexes, tv, m, i) ==
  toArray(premultiply(fromArray(tv, i), m), tv, i)

\* One turn of the loop of updateVertexes: the block at offset i.
transformBlock(originalVertexes, tv, m, i) ==
  toArray(premultiply(fromArray(originalVertexes, i), m), tv, i)

\* The loop of updateVertexes: for (i = 0; i < length; i += 16).
RECURSIVE updateLoop(_, _, _, _)
updateLoop(i, originalVertexes, tv, m) ==
  IF i < Len(originalVertexes)
    THEN updateLoop(i + 16, originalVertexes,
                    transformBlock(originalVertexes, tv, m, i), m)
    ELSE tv

\* Object4D.updateVertexes(): the new transformedVertexes.
updateVertexes(originalVertexes, tv, m) == updateLoop(0, originalVertexes, tv, m)


\* new Object4D(vertexes, edges, faces): the fields the constructor sets.
\* Float32Array stores every value of the model exactly.
flat4(vs) == [k \in 1..(4 * Len(vs)) |-> vs[((k - 1) \div 4) + 1][((k - 1) % 4) + 1]]

newObject4D(vs) ==
  [ vertexes |-> flat4(vs),
    transformedVertexes |-> flat4(vs),
    rot |-> [p \in Planes |-> 0],
    matrix4D |-> identity,
    needsUpdate |-> FALSE ]

-----------------------------------------------------------------------------
(* The generators *)

\* vert = [i % 2, (i % 4 - i % 2) / 2, (i % 8 - i % 4) / 4, (i % 16 - i % 8) / 8]
vertBits(i) == << i % 2,
                  ((i % 4) - (i % 2)) \div 2,
                  ((i % 8) - (i % 4)) \div 4,
                  ((i % 16) - (i % 8)) \div 8 >>

\* A scaling that leaves out the - 0.5: l * vert, in half units.
halfCoord_notCentred(l, bit) == l * (2 * bit)

\* l * (vert - 0.5), in half units.
halfCoord(l, bit) == l * (2 * bit - 1)

\* The vertex hyperboxVertexes pushes for index i.
vertexOf(i, lx, ly, lz, lt) ==
  LET vert == vertBits(i)
  IN << halfCoord(lx, vert[1]), halfCoord(ly, vert[2]),
        halfCoord(lz, vert[3]), halfCoord(lt, vert[4]) >>

\* hyperboxVertexes(lx, ly, lz, lt): the vertexes pushed for i, i + 1, .., 2^4 - 1.
RECURSIVE vertexLoop(_, _, _, _, _)
vertexLoop(i, lx, ly, lz, lt) ==
  IF i < 2 ^ 4
    THEN << vertexOf(i, lx, ly, lz, lt) >> \o vertexLoop(i + 1, lx, ly, lz, lt)
    ELSE << >>

hyperboxVertexes(lx, ly, lz, lt) == vertexLoop(0, lx, ly, lz, lt)

\* The test of hyperboxEdges on vertex i and direction dir.
edgeKept(vert, dir) == vert[dir + 1] = 0

\* An edge to i + 2 * dir in place of i + 2 ** dir.
edgeOf_timesForPower(i, dir) == << i, i + 2 * dir >>

\* The edge hyperboxEdges pushes.
edgeOf(i, dir) == << i, i + 2 ^ dir >>

\* for (const dir of [0, 1, 2, 3]): the edges pushed for vertex i from dir on.
RECURSIVE edgeDirLoop(_, _)
edgeDirLoop(i, dir) ==
  IF dir > 3 THEN << >>
  ELSE (IF edgeKept(vertBits(i), dir) THEN << edgeOf(i, dir) >> ELSE << >>)
       \o edgeDirLoop(i, dir + 1)

\* for (let i = 0; i < 2 ** 4; i++): the edges pushed from vertex i on.
RECURSIVE edgeLoop(_)
edgeLoop(i) ==
  IF i < 2 ^ 4 THEN edgeDirLoop(i, 0) \o edgeLoop(i + 1) ELSE << >>

hyperboxEdges == edgeLoop(0)

\* A test that leaves out dir2 > dir1.
faceKept_anyOrder(vert, dir1, dir2) ==
  dir2 # dir1 /\ vert[dir1 + 1] = 0 /\ vert[dir2 + 1] = 0

\* The test of hypercubeFaces on vertex i and directions dir1, dir2.
faceKept(vert, dir1, dir2) ==
  dir2 > dir1 /\ vert[dir1 + 1] = 0 /\ vert[dir2 + 1] = 0

\* The two triangles hypercubeFaces pushes.
facesOf(i, dir1, dir2) ==
  << << i, i + 2 ^ dir1, i + 2 ^ dir1 + 2 ^ dir2 >>,
     << i, i + 2 ^ dir1 + 2 ^ dir2, i + 2 ^ dir2 >> >>

\* for (const dir2 of [0, 1, 2, 3]): the faces pushed for i, dir1 from dir2 on.
RECURSIVE faceDir2Loop(_, _, _)
faceDir2Loop(i, dir1, dir2) ==
  IF dir2 > 3 THEN << >>
  ELSE (IF faceKept(vertBits(i), dir1, dir2) THEN facesOf(i, dir1, dir2) ELSE << >>)
       \o faceDir2Loop(i, dir1, dir2 + 1)

\* for (const dir1 of [0, 1, 2, 3]): the faces pushed for vertex i from dir1 on.
RECURSIVE faceDir1Loop(_, _)
faceDir1Loop(i, dir1) ==
  IF dir1 > 3 THEN << >>
  ELSE faceDir2Loop(i, dir1, 0) \o faceDir1Loop(i, dir1 + 1)

\* for (let i = 0; i < 2 ** 4; i++): the faces pushed from vertex i on.
RECURSIVE faceLoop(_)
faceLoop(i) ==
  IF i < 2 ^ 4 THEN faceDir1Loop(i, 0) \o faceLoop(i + 1) ELSE << >>

hypercubeFaces == faceLoop(0)

-----------------------------------------------------------------------------
(* The handlers of main.js *)

\* An onChangeFunc that leaves out shape.updateMatrix4D().
onChangeFunc_skipsMatrix ==
  /\ matrix4D' = matrix4D
  /\ transformedVertexes' = updateVertexes(vertexes, transformedVertexes, matrix4D')
  /\ needsUpdate' = TRUE

\* onChangeFunc: shape.updateMatrix4D(); shape.updateVertexes();
onChangeFunc ==
  /\ matrix4D' = updateMatrix4D(matrix4D, rot')
  /\ transformedVertexes' = updateVertexes(vertexes, transformedVertexes, matrix4D')
  /\ needsUpdate' = TRUE

\* A controller of the folder sets shape.rot[p] = v and calls onChangeFunc.
OnChange(p, v) ==
  /\ rot' = [rot EXCEPT ![p] = v]
  /\ onChangeFunc
  /\ UNCHANGED <<vertexes, geomVars>>

\* The drawrange controller calls drawrange.onChangeFunc, which sets the draw
\* range of the mesh geometry and calls shape.updateVertexes().
DrawRangeChange ==
  /\ transformedVertexes' = updateVertexes(vertexes, transformedVertexes, matrix4D)
  /\ needsUpdate' = TRUE
  /\ UNCHANGED <<vertexes, rot, matrix4D, geomVars>>

-----------------------------------------------------------------------------
(* Spec: main.js, the shape Hyperbox(3, 3, 3, 10) under its GUI folder *)

\* The angles a controller sets, in quarter turns.
Angles == (-1)..MaxQuarter

Constructed(vs) ==
  LET o == newObject4D(vs)
  IN /\ vertexes = o.vertexes
     /\ transformedVertexes = o.transformedVertexes
     /\ rot = o.rot
     /\ matrix4D = o.matrix4D
     /\ needsUpdate = o.needsUpdate

\* The generators have returned what Hyperbox(3, 3, 3, 10) asked of them.
HyperboxOfMain ==
  /\ args = <<3, 3, 3, 10>>
  /\ retVertexes = hyperboxVertexes(3, 3, 3, 10)
  /\ retEdges = hyperboxEdges
  /\ retFaces = hypercubeFaces

Init ==
  /\ HyperboxOfMain
  /\ Constructed(retVertexes)

Next ==
  \/ \E p \in Planes, v \in Angles : OnChange(p, v)
  \/ DrawRangeChange

Spec == Init /\ [][Next]_vars

-----------------------------------------------------------------------------
(* SpecObject: the same handlers on an Object4D built from any vertex list *)

\* The vertex lists handed to the constructor: the first 1 .. MaxVerts
\* vertexes of the hyperbox of main.js.
VertexInputs ==
  {SubSeq(hyperboxVertexes(3, 3, 3, 10), 1, n) : n \in 1..MaxVerts}

ObjectAngles == 0..MaxQuarter

InitObject ==
  /\ HyperboxOfMain
  /\ \E vs \in VertexInputs : Constructed(vs)

NextObject ==
  \/ \E p \in Planes, v \in ObjectAngles : OnChange(p, v)
  \/ DrawRangeChange

SpecObject == InitObject /\ [][NextObject]_vars

-----------------------------------------------------------------------------
(* SpecCompose: onChangeFunc on a shape whose six angles have been assigned *)

ComposeAngles == (-1)..(MaxQuarter + 1)

InitCompose ==
  /\ LET o == newObject4D(hyperboxVertexes(3, 3, 3, 10))
     IN /\ vertexes = o.vertexes
        /\ transformedVertexes = o.transformedVertexes
        /\ matrix4D = o.matrix4D
        /\ needsUpdate = o.needsUpdate
  /\ rot \in [Planes -> ComposeAngles]
  /\ HyperboxOfMain

CallOnChangeFunc ==
  /\ rot' = rot
  /\ onChangeFunc
  /\ UNCHANGED <<vertexes, geomVars>>

NextCompose == CallOnChangeFunc

SpecCompose == InitCompose /\ [][NextCompose]_vars

-----------------------------------------------------------------------------
(* SpecHyperbox: Hyperbox(lx, ly, lz, lt), argument by argument *)

Lengths == 1..MaxLen

InitHyperbox ==
  /\ args \in Lengths \X Lengths \X Lengths \X Lengths
  /\ retVertexes = <<>>
  /\ retEdges = <<>>
  /\ retFaces = <<>>
  /\ vertexes = <<>>
  /\ transformedVertexes = <<>>
  /\ rot = [p \in Planes |-> 0]
  /\ matrix4D = <<>>
  /\ needsUpdate = FALSE

CallHyperboxVertexes ==
  /\ retVertexes = <<>>
  /\ retVertexes' = hyperboxVertexes(args[1], args[2], args[3], args[4])
  /\ UNCHANGED <<objVars, args, retEdges, retFaces>>

CallHyperboxEdges ==
  /\ retVertexes # <<>> /\ retEdges = <<>>
  /\ retEdges' = hyperboxEdges
  /\ UNCHANGED <<objVars, args, retVertexes, retFaces>>

CallHypercubeFaces ==
  /\ retEdges # <<>> /\ retFaces = <<>>
  /\ retFaces' = hypercubeFaces
  /\ UNCHANGED <<objVars, args, retVertexes, retEdges>>

CallConstructor ==
  /\ retFaces # <<>> /\ matrix4D = <<>>
  /\ LET o == newObject4D(retVertexes)
     IN /\ vertexes' = o.vertexes
        /\ transformedVertexes' = o.transformedVertexes
        /\ rot' = o.rot
        /\ matrix4D' = o.matrix4D
        /\ needsUpdate' = o.needsUpdate
  /\ UNCHANGED geomVars

NextHyperbox ==
  \/ CallHyperboxVertexes
  \/ CallHyperboxEdges
  \/ CallHypercubeFaces
  \/ CallConstructor

SpecHyperbox == InitHyperbox /\ [][NextHyperbox]_vars

-----------------------------------------------------------------------------
(* Linear algebra the properties are stated in: a matrix is the tuple of its *)
(* four rows, a vector a 4-tuple; indices run over 1 .. 4.                   *)

Dot4(row, v) == row[1] * v[1] + row[2] * v[2] + row[3] * v[3] + row[4] * v[4]

MatVec(A, v) == << Dot4(A[1], v), Dot4(A[2], v), Dot4(A[3], v), Dot4(A[4], v) >>

Column(A, c) == << A[1][c], A[2][c], A[3][c], A[4][c] >>

MatMat(A, B) ==
  << << Dot4(A[1], Column(B, 1)), Dot4(A[1], Column(B, 2)),
        Dot4(A[1], Column(B, 3)), Dot4(A[1], Column(B, 4)) >>,
     << Dot4(A[2], Column(B, 1)), Dot4(A[2], Column(B, 2)),
        Dot4(A[2], Column(B, 3)), Dot4(A[2], Column(B, 4)) >>,
     << Dot4(A[3], Column(B, 1)), Dot4(A[3], Column(B, 2)),
        Dot4(A[3], Column(B, 3)), Dot4(A[3], Column(B, 4)) >>,
     << Dot4(A[4], Column(B, 1)), Dot4(A[4], Column(B, 2)),
        Dot4(A[4], Column(B, 3)), Dot4(A[4], Column(B, 4)) >> >>

\* The matrix a Matrix4 stands for: entry (row, column) is elements[4(column-1) + row].
MatrixOf(te) ==
  << << te[1], te[5], te[9], te[13] >>,
     << te[2], te[6], te[10], te[14] >>,
     << te[3], te[7], te[11], te[15] >>,
     << te[4], te[8], te[12], te[16] >> >>

Transpose(A) == << Column(A, 1), Column(A, 2), Column(A, 3), Column(A, 4) >>

IdentityMatrix == << <<1, 0, 0, 0>>, <<0, 1, 0, 0>>, <<0, 0, 1, 0>>, <<0, 0, 0, 1>> >>

\* Exact cosine and sine of q quarter turns.
CosQ(q) == IF q % 2 = 1 THEN 0 ELSE IF q % 4 = 0 THEN 1 ELSE -1
SinQ(q) == IF q % 2 = 0 THEN 0 ELSE IF q % 4 = 1 THEN 1 ELSE -1

\* One entry of the rotation by q quarter turns in the plane of axes a < b:
\* the identity but for cos at (a,a) and (b,b), -sin at (a,b), sin at (b,a).
RotationEntry(a, b, q, i, j) ==
  IF i = j THEN (IF i = a \/ i = b THEN CosQ(q) ELSE 1)
  ELSE IF i = a /\ j = b THEN 0 - SinQ(q)
  ELSE IF i = b /\ j = a THEN SinQ(q)
  ELSE 0

RotationRow(a, b, q, i) ==
  << RotationEntry(a, b, q, i, 1), RotationEntry(a, b, q, i, 2),
     RotationEntry(a, b, q, i, 3), RotationEntry(a, b, q, i, 4) >>

Rotation(a, b, q) ==
  << RotationRow(a, b, q, 1), RotationRow(a, b, q, 2),
     RotationRow(a, b, q, 3), RotationRow(a, b, q, 4) >>

\* R_xt * R_yt * R_zt * R_xy * R_yz * R_xz for the angles r; axes x, y, z, t are 1 .. 4.
RotationProduct(r) ==
  MatMat(MatMat(MatMat(MatMat(MatMat(Rotation(1, 4, r.xt), Rotation(2, 4, r.yt)),
                              Rotation(3, 4, r.zt)),
                       Rotation(1, 2, r.xy)),
                Rotation(2, 3, r.yz)),
         Rotation(1, 3, r.xz))

\* Vertex k (counted from 0) of a buffer.
VertexAt(buffer, k) ==
  << buffer[4 * k + 1], buffer[4 * k + 2], buffer[4 * k + 3], buffer[4 * k + 4] >>

VertexCount(buffer) == Len(buffer) \div 4

AllZero(r) == \A p \in Planes : r[p] = 0

-----------------------------------------------------------------------------
(* C1 *)

\* C1: updateVertexes transforms every vertex on its own: vertex k of the
\* transformed buffer is Transform4D applied to vertex k of the original
\* buffer, whatever the other vertexes of its block of 16 reals are.
C1_EachVertexTransformedAlone ==
  \A k \in 0..(VertexCount(vertexes) - 1) :
    VertexAt(transformedVertexes, k) = MatVec(MatrixOf(matrix4D), VertexAt(vertexes, k))

\* A shape of five vertexes (one full block and part of a second) that
\* updateVertexes has moved by a transform other than the identity.
C1_Witness ==
  /\ needsUpdate
  /\ Len(vertexes) = 20
  /\ matrix4D # identity
  /\ transformedVertexes # vertexes

-----------------------------------------------------------------------------
(* C6 *)

\* C6: whenever all six angles are 0 (in the freshly constructed shape, and
\* after any history of angle changes once updateMatrix4D and updateVertexes
\* have run) Transform4D is the identity and the transformed buffer equals the
\* original buffer element for element.
C6_ZeroAnglesGiveIdentity ==
  AllZero(rot) => (matrix4D = identity /\ transformedVertexes = vertexes)

\* updateMatrix4D and updateVertexes have run with all six angles at 0.
C6_Witness ==
  /\ needsUpdate
  /\ AllZero(rot)
  /\ matrix4D = identity
  /\ transformedVertexes = vertexes

-----------------------------------------------------------------------------
(* C9 *)

\* C9: no accumulated drift.  After any sequence of angle changes, each
\* followed by onChangeFunc, Transform4D is the product of the six rotations of
\* the current angles alone, and the transformed buffer is that transform
\* applied to the original buffer: both are functions of the current angles,
\* so two histories ending in the same angles end in the same transform and
\* the same buffer.
C9_NoAccumulatedDrift ==
  /\ MatrixOf(matrix4D) = RotationProduct(rot)
  /\ \A k \in 0..(VertexCount(vertexes) - 1) :
       VertexAt(transformedVertexes, k) = MatVec(RotationProduct(rot), VertexAt(vertexes, k))

\* Angles in three planes have been changed, one controller after the other.
C9_Witness ==
  /\ needsUpdate
  /\ rot.xy = 1 /\ rot.xt = -1 /\ rot.yz = 1
  /\ transformedVertexes # vertexes

-----------------------------------------------------------------------------
(* C7 *)

\* The other five angles of r are 0.
OnlyPlane(p, r) == \A q \in Planes \ {p} : r[q] = 0

\* A step that takes plane p from theta to -theta, the other five angles 0.
ThetaThenMinusTheta(p) ==
  /\ OnlyPlane(p, rot) /\ OnlyPlane(p, rot')
  /\ rot'[p] = 0 - rot[p]

\* C7 as stated: rotating a plane by theta, then by -theta, recomputing the
\* transform after each, returns Transform4D to the identity.
C7_AsStated ==
  [][\A p \in Planes : ThetaThenMinusTheta(p) => matrix4D' = identity]_vars

\* C7, amended: setting the plane's angle to theta and then to -theta,
\* recomputing after each, leaves Transform4D at the rotation by -theta: the
\* transpose, and inverse, of the transform after the first step.  It is the
\* identity only if the transform after the first step already was.
C7_SecondIsInverseOfFirst ==
  [][\A p \in Planes : ThetaThenMinusTheta(p) =>
        /\ MatrixOf(matrix4D') = Transpose(MatrixOf(matrix4D))
        /\ MatMat(MatrixOf(matrix4D), MatrixOf(matrix4D')) = IdentityMatrix
        /\ (matrix4D' = identity <=> matrix4D = identity)]_vars

\* The x-y plane has been set to a quarter turn and then to minus a quarter
\* turn; Transform4D is the rotation by minus a quarter turn, not the identity.
C7_Witness ==
  /\ needsUpdate
  /\ rot.xy = -1 /\ OnlyPlane("xy", rot)
  /\ MatrixOf(matrix4D) = Transpose(Rotation(1, 2, 1))
  /\ matrix4D # identity

-----------------------------------------------------------------------------
(* C8 *)

\* C8: updateVertexes is idempotent.  A call that finds the angles and
\* Transform4D as the previous call left them leaves the transformed buffer
\* as it was, and no call writes the original buffer.
C8_UpdateVertexesIdempotent ==
  [][/\ vertexes' = vertexes
     /\ (rot' = rot /\ matrix4D' = matrix4D) => transformedVertexes' = transformedVertexes]_vars

\* updateVertexes has run on a shape of five vertexes under a transform other
\* than the identity; the drawrange controller can call it again from here.
C8_Witness ==
  /\ needsUpdate
  /\ Len(vertexes) = 20
  /\ matrix4D # identity
  /\ transformedVertexes # vertexes
  /\ rot.zt = 1 /\ rot.xy = 1

-----------------------------------------------------------------------------
(* C10 *)

\* C10: for an Object4D built from any vertex list, in every reachable state
\* the transformed buffer is as long as the original buffer and both lengths
\* are divisible by 16.
C10_LengthsEqualAndDivisibleBy16 ==
  /\ Len(transformedVertexes) = Len(vertexes)
  /\ Len(vertexes) % 16 = 0
  /\ Len(transformedVertexes) % 16 = 0

-----------------------------------------------------------------------------
(* C2 *)

\* The vector v turned by q quarter turns in the plane of axes a < b.
RotateVec(a, b, q, v) ==
  [v EXCEPT ![a] = CosQ(q) * v[a] - SinQ(q) * v[b],
            ![b] = SinQ(q) * v[a] + CosQ(q) * v[b]]

\* What R_xt * R_yt * R_zt * R_xy * R_yz * R_xz does to v: the factor on the
\* right acts first.
SixRotations(r, v) ==
  RotateVec(1, 4, r.xt,
    RotateVec(2, 4, r.yt,
      RotateVec(3, 4, r.zt,
        RotateVec(1, 2, r.xy,
          RotateVec(2, 3, r.yz,
            RotateVec(1, 3, r.xz, v))))))

HalfTurn == [p \in Planes |-> 2]

\* C2: updateMatrix4D leaves Transform4D = R_xt * R_yt * R_zt * R_xy * R_yz * R_xz
\* for every combination of the six angles: the matrix is that product, and it
\* takes each canonical basis vector where the six rotations, applied in that
\* order, take it; so too with all six angles at a half turn.
C2_CompositionOrder ==
  needsUpdate =>
    /\ MatrixOf(matrix4D) = RotationProduct(rot)
    /\ \A c \in 1..4 :
         Column(MatrixOf(matrix4D), c) = SixRotations(rot, IdentityMatrix[c])
    /\ (rot = HalfTurn => MatrixOf(matrix4D) = RotationProduct(HalfTurn))

\* updateMatrix4D has run with a quarter turn in the planes xy and yz, whose
\* rotations do not commute: the transform is R_xy * R_yz and not R_yz * R_xy.
C2_Witness ==
  /\ needsUpdate
  /\ rot = [p \in Planes |-> IF p \in {"xy", "yz"} THEN 1 ELSE 0]
  /\ MatrixOf(matrix4D) = MatMat(Rotation(1, 2, 1), Rotation(2, 3, 1))
  /\ MatrixOf(matrix4D) # MatMat(Rotation(2, 3, 1), Rotation(1, 2, 1))

-----------------------------------------------------------------------------
(* The 4-cube the generators are meant to produce *)

\* Bit k (0 .. 3) of the vertex index i.
Bit(i, k) == (i \div (2 ^ k)) % 2

\* The number of bits in which two indices differ.
Hamming(i, j) ==
  Cardinality({k \in 0..3 : Bit(i, k) # Bit(j, k)})

VertexIndices == 0..15

SeqRange(q) == {q[n] : n \in 1..Len(q)}

-----------------------------------------------------------------------------
(* C3 *)

\* C3: hyperboxVertexes(lx, ly, lz, lt) returns exactly 16 vertexes, and
\* coordinate k of vertex i is +l_k/2 when bit k of i is 1 and -l_k/2 when it
\* is 0 (the buffers hold half units, so the entry is +l_k or -l_k); with
\* lengths 2, 4, 6, 8 vertex 0 is (-1,-2,-3,-4) and vertex 15 is (1,2,3,4),
\* and with all lengths 1 every coordinate is +0.5 or -0.5.
C3_VertexesFollowBits ==
  retVertexes # <<>> =>
    /\ Len(retVertexes) = 16
    /\ \A i \in VertexIndices : \A k \in 0..3 :
         retVertexes[i + 1][k + 1] =
           IF Bit(i, k) = 1 THEN args[k + 1] ELSE 0 - args[k + 1]
    /\ (args = <<2, 4, 6, 8>> =>
          /\ retVertexes[1] = <<-2, -4, -6, -8>>
          /\ retVertexes[16] = <<2, 4, 6, 8>>)
    /\ (args = <<1, 1, 1, 1>> =>
          \A i \in VertexIndices : \A k \in 0..3 :
            retVertexes[i + 1][k + 1] \in {-1, 1})

\* hyperboxVertexes(2, 4, 6, 8) has returned.
C3_Witness ==
  /\ args = <<2, 4, 6, 8>>
  /\ Len(retVertexes) = 16
  /\ retVertexes[1] = <<-2, -4, -6, -8>>
  /\ retVertexes[16] = <<2, 4, 6, 8>>

-----------------------------------------------------------------------------
(* C4 *)

\* C4: hyperboxEdges returns exactly 32 edges, none twice; every edge is a pair
\* (i, i + 2^dir) with bit dir of i equal to 0, both ends valid vertex indices
\* at Hamming distance 1; and every pair of indices at Hamming distance 1 is
\* an edge.
C4_EdgesAreTheCubeEdges ==
  retEdges # <<>> =>
    /\ Len(retEdges) = 32
    /\ \A m, n \in 1..Len(retEdges) : m # n => retEdges[m] # retEdges[n]
    /\ \A n \in 1..Len(retEdges) :
         /\ \E i \in VertexIndices, dir \in 0..3 :
              Bit(i, dir) = 0 /\ retEdges[n] = <<i, i + 2 ^ dir>>
         /\ retEdges[n][1] \in VertexIndices
         /\ retEdges[n][2] \in VertexIndices
         /\ Hamming(retEdges[n][1], retEdges[n][2]) = 1
    /\ \A i, j \in VertexIndices :
         Hamming(i, j) = 1 =>
           \E n \in 1..Len(retEdges) : {retEdges[n][1], retEdges[n][2]} = {i, j}

\* hyperboxEdges has returned its 32 edges, from (0, 1) to (14, 15).
C4_Witness ==
  /\ Len(retEdges) = 32
  /\ retEdges[1] = <<0, 1>>
  /\ retEdges[32] = <<14, 15>>

-----------------------------------------------------------------------------
(* C5 *)

\* The squares of the 4-cube: a corner i and two directions dir1 < dir2 whose
\* bits in i are 0.
Squares ==
  {sq \in VertexIndices \X (0..3) \X (0..3) :
     sq[2] < sq[3] /\ Bit(sq[1], sq[2]) = 0 /\ Bit(sq[1], sq[3]) = 0}

SquareCorners(sq) ==
  {sq[1], sq[1] + 2 ^ sq[2], sq[1] + 2 ^ sq[3], sq[1] + 2 ^ sq[2] + 2 ^ sq[3]}

\* The two triangles meant to cover the square.
SquareTriangles(sq) ==
  { <<sq[1], sq[1] + 2 ^ sq[2], sq[1] + 2 ^ sq[2] + 2 ^ sq[3]>>,
    <<sq[1], sq[1] + 2 ^ sq[2] + 2 ^ sq[3], sq[1] + 2 ^ sq[3]>> }

\* The places in faces of the triangles lying in the square.
TrianglesIn(faces, sq) ==
  {n \in 1..Len(faces) : SeqRange(faces[n]) \subseteq SquareCorners(sq)}

\* C5: hypercubeFaces returns exactly 48 triangles on valid vertex indices;
\* each of the 24 squares of the 4-cube is covered by exactly its two triangles
\* (i, i+2^dir1, i+2^dir1+2^dir2) and (i, i+2^dir1+2^dir2, i+2^dir2), and no
\* triangle lies outside such a square.
C5_FacesTriangulateTheSquares ==
  retFaces # <<>> =>
    /\ Len(retFaces) = 48
    /\ Cardinality(Squares) = 24
    /\ \A n \in 1..Len(retFaces) : SeqRange(retFaces[n]) \subseteq VertexIndices
    /\ \A sq \in Squares :
         /\ Cardinality(TrianglesIn(retFaces, sq)) = 2
         /\ {retFaces[n] : n \in TrianglesIn(retFaces, sq)} = SquareTriangles(sq)
    /\ \A n \in 1..Len(retFaces) :
         \E sq \in Squares : retFaces[n] \in SquareTriangles(sq)

\* hypercubeFaces has returned its 48 triangles, the first two on the square
\* 0, 1, 3, 2.
C5_Witness ==
  /\ Len(retFaces) = 48
  /\ retFaces[1] = <<0, 1, 3>>
  /\ retFaces[2] = <<0, 3, 2>>

====
